---------------------------- MODULE Spec2Model ----------------------------
(***************************************************************************)
(* AHP + TOPSIS decision engine (utils.py) and its caller (app.py).        *)
(*                                                                         *)
(* Numbers.  A float64 is modelled as a record [k, n, d]:                  *)
(*   k = "fin"   the rational n/d in lowest terms, d > 0                   *)
(*   k = "tiny"  a positive finite float so small that 1.0/x overflows     *)
(*               (x < 1/DBL_MAX, e.g. the subnormal 5e-324)                *)
(*   k = "pinf" / "ninf" / "nan"   the IEEE specials                       *)
(* Finite arithmetic is exact rational arithmetic: rounding to 53 bits is  *)
(* not modelled.  Comparisons that involve the tolerances of np.allclose   *)
(* are decided exactly, on natural numbers of arbitrary size (sequences of *)
(* base-10^4 limbs), since their cross products exceed 32 bits.            *)
(***************************************************************************)
EXTENDS Integers, Sequences, FiniteSets, TLC

\* ------------------------------------------------------------------------
\* Natural numbers of arbitrary size: little-endian limbs, no leading zero
\* ------------------------------------------------------------------------
Taban == 10^4

Abs(x) == IF x < 0 THEN -x ELSE x

RECURSIVE BigOf(_)
BigOf(n) == IF n = 0 THEN <<>> ELSE <<n % Taban>> \o BigOf(n \div Taban)

RECURSIVE BAddC(_, _, _)
BAddC(a, b, c) ==
    IF a = <<>> /\ b = <<>>
    THEN IF c = 0 THEN <<>> ELSE <<c>>
    ELSE LET x == IF a = <<>> THEN 0 ELSE Head(a)
             y == IF b = <<>> THEN 0 ELSE Head(b)
             s == x + y + c
             ra == IF a = <<>> THEN <<>> ELSE Tail(a)
             rb == IF b = <<>> THEN <<>> ELSE Tail(b)
         IN  <<s % Taban>> \o BAddC(ra, rb, s \div Taban)

BAdd(a, b) == BAddC(a, b, 0)

RECURSIVE BMulSmallC(_, _, _)
BMulSmallC(a, k, c) ==
    IF a = <<>>
    THEN IF c = 0 THEN <<>> ELSE <<c>>
    ELSE LET s == Head(a) * k + c
         IN  <<s % Taban>> \o BMulSmallC(Tail(a), k, s \div Taban)

BMulSmall(a, k) == IF k = 0 THEN <<>> ELSE BMulSmallC(a, k, 0)

BShift(a) == IF a = <<>> THEN <<>> ELSE <<0>> \o a

RECURSIVE BMul(_, _)
BMul(a, b) ==
    IF a = <<>> \/ b = <<>> THEN <<>>
    ELSE BAdd(BMulSmall(a, Head(b)), BShift(BMul(a, Tail(b))))

RECURSIVE BLeqFrom(_, _, _)
BLeqFrom(a, b, i) ==
    IF i = 0 THEN TRUE
    ELSE IF a[i] # b[i] THEN a[i] < b[i]
    ELSE BLeqFrom(a, b, i - 1)

BLeq(a, b) ==
    IF Len(a) # Len(b) THEN Len(a) < Len(b) ELSE BLeqFrom(a, b, Len(a))

BProd3(x, y, z) == BMul(BMul(BigOf(x), BigOf(y)), BigOf(z))

\* ------------------------------------------------------------------------
\* float64 values
\* ------------------------------------------------------------------------
RECURSIVE GCD(_, _)
GCD(a, b) == IF b = 0 THEN a ELSE GCD(b, a % b)

Kesir(p, q) ==
    LET g == GCD(Abs(p), Abs(q))
        s == IF q < 0 THEN -1 ELSE 1
    IN  [k |-> "fin", n |-> s * (p \div g), d |-> s * (q \div g)]

Tam(p) == [k |-> "fin", n |-> p, d |-> 1]
NaN    == [k |-> "nan", n |-> 0, d |-> 1]
PInf   == [k |-> "pinf", n |-> 0, d |-> 1]
NInf   == [k |-> "ninf", n |-> 0, d |-> 1]
Tiny   == [k |-> "tiny", n |-> 0, d |-> 1]
Sifir  == Tam(0)
Bir    == Tam(1)

\* np.isfinite
isfinite(x) == x.k \in {"fin", "tiny"}

\* The rational a finite float stands for in a comparison against a tolerance:
\* a "tiny" value is below every tolerance and every other modelled value.
Rasyonel(x) == IF x.k = "tiny" THEN Sifir ELSE x

\* x <= 0 and x != 0 under IEEE comparison (every comparison with nan is
\* False, so nan != 0 is True)
LeqSifir(x) == (x.k = "fin" /\ x.n <= 0) \/ x.k = "ninf"
SifirDegil(x) == ~(x.k = "fin" /\ x.n = 0)

\* Exact order on finite rationals
RLeq(x, y) ==
    IF x.n <= 0 /\ y.n >= 0 THEN TRUE
    ELSE IF x.n >= 0 /\ y.n <= 0 THEN x.n = 0 /\ y.n = 0
    ELSE IF x.n > 0
         THEN BLeq(BMul(BigOf(x.n), BigOf(y.d)), BMul(BigOf(y.n), BigOf(x.d)))
         ELSE BLeq(BMul(BigOf(-y.n), BigOf(x.d)), BMul(BigOf(-x.n), BigOf(y.d)))

RLt(x, y) == ~RLeq(y, x)

RNeg(x) == [k |-> "fin", n |-> -x.n, d |-> x.d]
RAbs(x) == [k |-> "fin", n |-> Abs(x.n), d |-> x.d]

RAdd(x, y) ==
    IF x.n = 0 THEN y
    ELSE IF y.n = 0 THEN x
    ELSE LET g == GCD(x.d, y.d)
         IN  Kesir(x.n * (y.d \div g) + y.n * (x.d \div g), (x.d \div g) * y.d)

RSub(x, y) == RAdd(x, RNeg(y))

RMul(x, y) ==
    LET g1 == GCD(Abs(x.n), y.d)
        g2 == GCD(Abs(y.n), x.d)
    IN  IF x.n = 0 \/ y.n = 0 THEN Sifir
        ELSE Kesir((x.n \div g1) * (y.n \div g2), (x.d \div g2) * (y.d \div g1))

RInv(x) == Kesir(x.d, x.n)

RDiv(x, y) == RMul(x, RInv(y))

RMax(x, y) == IF RLeq(x, y) THEN y ELSE x

\* |x - y| <= an/ad + (rn/rd) * |y| on finite rationals, decided exactly:
\* with X = x.n*y.d and Y = y.n*x.d the inequality is
\*   |X - Y| * ad*rd  <=  an*rd*x.d*y.d + rn*ad*|y.n|*x.d
WithinTolBuyuk(x, y, an, ad, rn, rd) ==
    LET X   == BMul(BigOf(Abs(x.n)), BigOf(y.d))
        Y   == BMul(BigOf(Abs(y.n)), BigOf(x.d))
        T   == BMul(BigOf(ad), BigOf(rd))
        R   == BAdd(BMul(BProd3(an, rd, x.d), BigOf(y.d)),
                    BMul(BProd3(rn, ad, Abs(y.n)), BigOf(x.d)))
        ayni == (x.n >= 0 /\ y.n >= 0) \/ (x.n <= 0 /\ y.n <= 0)
    IN  IF ayni
        THEN IF BLeq(Y, X)
             THEN BLeq(BMul(X, T), BAdd(R, BMul(Y, T)))
             ELSE BLeq(BMul(Y, T), BAdd(R, BMul(X, T)))
        ELSE BLeq(BMul(BAdd(X, Y), T), R)

\* The same inequality for an = rn = 1, rd dividing ad, and numerators and
\* denominators up to 1000, where 32 bits suffice: divided by rd it reads
\*   |X - Y| * ad  <=  x.d*y.d + (ad/rd)*|y.n|*x.d
\* and the right side is below 2^31.
WithinTolKucuk(x, y, ad, rd) ==
    LET D == Abs(x.n * y.d - y.n * x.d)
        R == x.d * y.d + (ad \div rd) * Abs(y.n) * x.d
    IN  D <= R \div ad

KucukSayi(x) == Abs(x.n) <= 1000 /\ x.d <= 1000

\* The same inequality for an = rn = 1 and rd dividing ad, on naturals of
\* arbitrary size: with M = y.d + (ad/rd)*|y.n| it reads |X - Y| * ad <= x.d * M
WithinTolOrta(x, y, ad, rd) ==
    LET X  == BMul(BigOf(Abs(x.n)), BigOf(y.d))
        Y  == BMul(BigOf(Abs(y.n)), BigOf(x.d))
        A  == BigOf(ad)
        R  == BMul(BigOf(x.d), BAdd(BigOf(y.d), BMul(BigOf(ad \div rd), BigOf(Abs(y.n)))))
        ayni == (x.n >= 0 /\ y.n >= 0) \/ (x.n <= 0 /\ y.n <= 0)
    IN  IF ayni
        THEN IF BLeq(Y, X)
             THEN BLeq(BMul(X, A), BAdd(R, BMul(Y, A)))
             ELSE BLeq(BMul(Y, A), BAdd(R, BMul(X, A)))
        ELSE BLeq(BMul(BAdd(X, Y), A), R)

WithinTol(x, y, an, ad, rn, rd) ==
    IF an = 1 /\ rn = 1 /\ ad % rd = 0
    THEN IF ad \div rd <= 1000 /\ KucukSayi(x) /\ KucukSayi(y)
         THEN WithinTolKucuk(x, y, ad, rd)
         ELSE WithinTolOrta(x, y, ad, rd)
    ELSE WithinTolBuyuk(x, y, an, ad, rn, rd)

\* np.isclose(x, y, rtol, atol) with equal_nan = False: the tolerance test
\* where both are finite, IEEE equality otherwise (inf == inf, nan != nan)
isclose(x, y, an, ad, rn, rd) ==
    IF isfinite(x) /\ isfinite(y)
    THEN Rasyonel(x) = Rasyonel(y)
         \/ WithinTol(Rasyonel(x), Rasyonel(y), an, ad, rn, rd)
    ELSE x.k = y.k /\ x.k \in {"pinf", "ninf"}

\* 1.0 / x for x != 0 (IEEE division: no exception on overflow)
Bolum1(x) ==
    CASE x.k = "fin"  -> RInv(x)
      [] x.k = "tiny" -> PInf
      [] x.k = "pinf" -> Sifir
      [] x.k = "ninf" -> Sifir
      [] OTHER        -> NaN

\* ------------------------------------------------------------------------
\* numpy arrays: [ndim, shape, a], a maps index tuples (1-based) to floats
\* ------------------------------------------------------------------------
Hucreler(shape) ==
    IF Len(shape) = 1 THEN {<<i>> : i \in 1..shape[1]}
    ELSE {<<i, j>> : i \in 1..shape[1], j \in 1..shape[2]}

Dizi(shape, f) == [ndim |-> Len(shape), shape |-> shape, a |-> f]

\* np.ones(shape)
Birler(shape) == Dizi(shape, [c \in Hucreler(shape) |-> Bir])

\* matris.T of a 2-D array
Devrik(m) ==
    Dizi(<<m.shape[2], m.shape[1]>>,
         [c \in Hucreler(<<m.shape[2], m.shape[1]>>) |-> m.a[<<c[2], c[1]>>]])

\* np.diag(matris) of a square 2-D array
Kosegen(m) == [i \in 1..m.shape[1] |-> m.a[<<i, i>>]]

\* ------------------------------------------------------------------------
\* PairwiseMatrixValidator: ikili_karsilastirma_matrisi_dogrula
\* ------------------------------------------------------------------------
HATA_KARE     == "Ikili karsilastirma matrisi kare olmali (n x n)."
HATA_POZITIF  == "Tum hucreler pozitif ve sonlu sayilar olmali."
HATA_KOSEGEN  == "Kosegen degerleri 1 olmali."
HATA_KARSILIK == "Matris karsilikli olmali: a_ij = 1 / a_ji."

\* tolerans = 1e-8 (the keyword default), atol = 1e-6 of the reciprocity
\* test, and np.allclose's own default rtol = 1e-5, as 1/denominator
ToleransPayda     == 100000000
KarsilikAtolPayda == 1000000
RtolPayda         == 100000

\* Cells np.reciprocal(matris, where=matris != 0) does not write: without an
\* out= array they keep whatever the fresh allocation held.
YazilmayanHucreler(m) == {c \in DOMAIN m.a : ~SifirDegil(m.a[c])}

\* What an unwritten cell may hold
CopDegerleri == {Sifir, Bir, NaN}

CopSecimleri(m) == [YazilmayanHucreler(m) -> CopDegerleri]

\* karsilik = np.reciprocal(matris, where=matris != 0); cop gives the content
\* of the cells left unwritten
Karsilik(m, cop) ==
    Dizi(m.shape,
         [c \in DOMAIN m.a |-> IF SifirDegil(m.a[c]) THEN Bolum1(m.a[c]) ELSE cop[c]])

\* not np.isfinite(matris).all() or np.any(matris <= 0)
PozitifSonluDegil(m) ==
    IF ~(\A c \in DOMAIN m.a : isfinite(m.a[c])) THEN TRUE
    ELSE \E c \in DOMAIN m.a : LeqSifir(m.a[c])

\* not np.allclose(np.diag(matris), 1.0, atol=tolerans)
KosegenBirDegil(m, tolPayda) ==
    LET kosegen == Kosegen(m)
    IN  ~(\A x \in {kosegen[i] : i \in DOMAIN kosegen} :
              isclose(x, Bir, 1, tolPayda, 1, RtolPayda))

\* not np.allclose(matris.T, karsilik, atol=1e-6)
KarsilikliDegil(m, kars) ==
    LET devrik == Devrik(m)
    IN  ~(\A p \in {<<devrik.a[c], kars.a[c]>> : c \in DOMAIN kars.a} :
              isclose(p[1], p[2], 1, KarsilikAtolPayda, 1, RtolPayda))

KareDegil(m) == IF m.ndim # 2 THEN TRUE ELSE m.shape[1] # m.shape[2]

\* A validator that returns at the first failing check.  It differs from
\* ikili_karsilastirma_matrisi_dogrula exactly on matrices that fail more than
\* one check.
dogrula_ilk_hatada_durur(m, tolPayda, cop) ==
    IF KareDegil(m) THEN <<HATA_KARE>>
    ELSE IF PozitifSonluDegil(m) THEN <<HATA_POZITIF>>
    ELSE IF KosegenBirDegil(m, tolPayda) THEN <<HATA_KOSEGEN>>
    ELSE IF KarsilikliDegil(m, Karsilik(m, cop)) THEN <<HATA_KARSILIK>>
    ELSE <<>>

ikili_karsilastirma_matrisi_dogrula(m, tolPayda, cop) ==
    IF KareDegil(m) THEN <<HATA_KARE>>
    ELSE
      LET h0 == <<>>
          h1 == IF PozitifSonluDegil(m) THEN Append(h0, HATA_POZITIF) ELSE h0
          h2 == IF KosegenBirDegil(m, tolPayda) THEN Append(h1, HATA_KOSEGEN) ELSE h1
          h3 == IF KarsilikliDegil(m, Karsilik(m, cop))
                THEN Append(h2, HATA_KARSILIK) ELSE h2
      IN  h3

\* ------------------------------------------------------------------------
\* The repair step of the caller: karsiliklilik_uygula
\* ------------------------------------------------------------------------
\* v of the loop body: the raw upper entry, or 1.0 when it is not finite or <= 0
UstDeger(v) == IF ~isfinite(v) \/ LeqSifir(v) THEN Bir ELSE v

\* The loop writes degerler[i,i], degerler[i,j] and degerler[j,i] for i < j; it
\* reads only degerler[i,j] with i < j, which no earlier iteration wrote.
\* A repair that sets the diagonal and sanitises the upper triangle but
\* leaves the lower triangle as the caller passed it
onarim_alt_ucgeni_birakir(m) ==
    Dizi(m.shape,
         [c \in DOMAIN m.a |->
             IF c[1] = c[2] THEN Bir
             ELSE IF c[1] < c[2] THEN UstDeger(m.a[c])
             ELSE m.a[c]])

karsiliklilik_uygula(m) ==
    Dizi(m.shape,
         [c \in DOMAIN m.a |->
             IF c[1] = c[2] THEN Bir
             ELSE IF c[1] < c[2] THEN UstDeger(m.a[c])
             ELSE Bolum1(UstDeger(m.a[<<c[2], c[1]>>]))])

\* ------------------------------------------------------------------------
\* AHPWeightSolver: ahp_agirliklarini_hesapla
\* ------------------------------------------------------------------------
\* RASTGELE_INDEKS_TABLOSU, in hundredths
RASTGELE_INDEKS_TABLOSU ==
    [n \in 1..10 |->
        Kesir(<<0, 0, 58, 90, 112, 124, 132, 141, 145, 149>>[n], 100)]

\* RASTGELE_INDEKS_TABLOSU.get(n, 0.0)
RastgeleIndeks(n) ==
    IF n \in DOMAIN RASTGELE_INDEKS_TABLOSU THEN RASTGELE_INDEKS_TABLOSU[n] ELSE Sifir

\* f[a] + ... + f[b], added pairwise
RECURSIVE RToplamAralik(_, _, _)
RToplamAralik(f, a, b) ==
    IF a > b THEN Sifir
    ELSE IF a = b THEN f[a]
    ELSE LET o == (a + b) \div 2
         IN  RAdd(RToplamAralik(f, a, o), RToplamAralik(f, o + 1, b))

RToplam(f, n) == RToplamAralik(f, 1, n)

\* f[1] * ... * f[n]
RECURSIVE RCarpim(_, _)
RCarpim(f, n) == IF n = 0 THEN Bir ELSE RMul(RCarpim(f, n - 1), f[n])

\* A product that takes only the diagonal of the matrix
MatVekKosegen(m, v) == [i \in 1..m.shape[1] |-> RMul(m.a[<<i, i>>], v[i])]

\* matris @ v
MatVek(m, v) ==
    LET n == m.shape[1]
    IN  [i \in 1..n |-> RToplam([j \in 1..n |-> RMul(m.a[<<i, j>>], v[j])], n)]

\* v is a positive eigenvector of m: m v = lambda v with every v[i] > 0.  For
\* a matrix of positive entries this pair is unique up to scale and lambda is
\* the eigenvalue of largest real part (Perron-Frobenius), which is the one
\* np.argmax(ozdegerler.real) selects.
PerronCifti(m, v) ==
    LET n  == m.shape[1]
        mv == MatVek(m, v)
        l  == RDiv(mv[1], v[1])
    IN  /\ \A i \in 1..n : v[i].n > 0
        /\ \A i \in 1..n : mv[i] = RMul(l, v[i])

\* r^n, saturating above 10^6
RECURSIVE SPow(_, _)
SPow(r, n) ==
    IF n = 0 THEN 1
    ELSE LET t == SPow(r, n - 1)
         IN  IF t * r > 10^6 THEN 10^6 + 1 ELSE t * r

KokAdaylari == 1..16

\* the natural r with r^n = p, or 0 when KokAdaylari holds none
IntKok(p, n) ==
    IF \E r \in KokAdaylari : SPow(r, n) = p
    THEN CHOOSE r \in KokAdaylari : SPow(r, n) = p
    ELSE 0

\* Entries small enough for products of a row to stay within 32 bits, and
\* entries whose denominators divide 10^6, so that sums of a row do
Kucuk(m) == \A c \in DOMAIN m.a : m.a[c].n <= 64 /\ m.a[c].d <= 64
OrtakPaydali(m) == \A c \in DOMAIN m.a : 10^6 % m.a[c].d = 0 /\ m.a[c].n <= 10^7

\* Candidate eigenvectors: the all-ones vector, the first column, and the row
\* geometric means where their roots are rational.
BirlerVektoru(m) == [i \in 1..m.shape[1] |-> Bir]
IlkSutun(m) == [i \in 1..m.shape[1] |-> m.a[<<i, 1>>]]
SatirCarpimlari(m) ==
    LET n == m.shape[1]
    IN  [i \in 1..n |-> RCarpim([j \in 1..n |-> m.a[<<i, j>>]], n)]
GeoOrtalama(m) ==
    LET n == m.shape[1]
        p == SatirCarpimlari(m)
    IN  IF \A i \in 1..n : IntKok(p[i].n, n) # 0 /\ IntKok(p[i].d, n) # 0
        THEN {[i \in 1..n |-> Kesir(IntKok(p[i].n, n), IntKok(p[i].d, n))]}
        ELSE {}

EigAdaylari(m) ==
    (IF OrtakPaydali(m) THEN {BirlerVektoru(m)} ELSE {})
      \cup (IF m.shape[1] <= 4 /\ Kucuk(m) THEN {IlkSutun(m)} \cup GeoOrtalama(m) ELSE {})

\* The dominant eigenpair is rational and among the candidates
EigTemsilEdilir(m) == \E v \in EigAdaylari(m) : PerronCifti(m, v)

PerronVektoru(m) == CHOOSE v \in EigAdaylari(m) : PerronCifti(m, v)

Isaretler == {1, -1}
Olcekler == {1, 2}

\* np.linalg.eig(matris) followed by indeks = argmax(ozdegerler.real):
\* lambda_maks and the column ozvektorler[:, indeks].real, which LAPACK
\* returns as the Perron vector times a scale of either sign.
EigBaskin(m) ==
    { [lambda |-> RDiv(MatVek(m, v)[1], v[1]),
       vektor |-> [i \in 1..m.shape[1] |-> RMul(Kesir(isaret, olcek), v[i])]]
      : v \in {PerronVektoru(m)}, isaret \in Isaretler, olcek \in Olcekler }

HataYok == [sinif |-> "", metin |-> "", ayrinti |-> <<>>]

ValueError(metin, ayrinti) ==
    [sinif |-> "ValueError", metin |-> metin, ayrinti |-> ayrinti]

HATA_BOYUT    == "Kriter sayisi ile matris boyutu uyusmuyor."
HATA_GECERSIZ == "Gecersiz ikili karsilastirma matrisi: "
HATA_ARGMAX   == "attempt to get argmax of an empty sequence"

Basarisiz(hata) ==
    [durum |-> "hata", hata |-> hata, agirliklar |-> <<>>,
     lambda_maks |-> NaN, ci |-> NaN, cr |-> NaN]

SonucYok ==
    [durum |-> "yok", hata |-> HataYok, agirliklar |-> <<>>,
     lambda_maks |-> NaN, ci |-> NaN, cr |-> NaN]

\* ci as line 240 leaves it, without the clamp of line 245
TutarlilikIndeksiKirpmasiz(lambda, n) ==
    IF n > 1 THEN RDiv(RSub(lambda, Tam(n)), Tam(n - 1)) ELSE Sifir

\* ci after line 245 and cr after line 246, from lambda_maks and n
TutarlilikIndeksi(lambda, n) ==
    LET ci == IF n > 1 THEN RDiv(RSub(lambda, Tam(n)), Tam(n - 1)) ELSE Sifir
    IN  RMax(ci, Sifir)

TutarlilikOrani(lambda, n) ==
    LET ci == IF n > 1 THEN RDiv(RSub(lambda, Tam(n)), Tam(n - 1)) ELSE Sifir
        ri == RastgeleIndeks(n)
        cr == IF RLt(Sifir, ri) THEN RDiv(ci, ri) ELSE Sifir
    IN  RMax(cr, Sifir)

\* The absolute values of the eigenvector, not divided by their sum
AgirliklarBolmesiz(vektor, n) == [i \in 1..n |-> RAbs(vektor[i])]

\* agirliklar = ana_ozvektor / ana_ozvektor.sum(), ana_ozvektor = np.abs(column)
Agirliklar(vektor, n) ==
    LET ana_ozvektor == [i \in 1..n |-> RAbs(vektor[i])]
        toplam == RToplam(ana_ozvektor, n)
    IN  [i \in 1..n |-> RDiv(ana_ozvektor[i], toplam)]

\* CR_ESIGI of the caller: the advisory threshold on cr
CR_ESIGI == Kesir(1, 10)

\* A solver that treats a consistency ratio above CR_ESIGI as an invalid matrix
ahp_cr_esigini_zorlar(m, kriterler, cop, e) ==
    IF m.shape[1] # Len(kriterler)
    THEN Basarisiz(ValueError(HATA_BOYUT, <<>>))
    ELSE
      LET h == ikili_karsilastirma_matrisi_dogrula(m, ToleransPayda, cop)
          n == m.shape[1]
      IN  IF h # <<>> THEN Basarisiz(ValueError(HATA_GECERSIZ, h))
          ELSE IF n = 0 THEN Basarisiz(ValueError(HATA_ARGMAX, <<>>))
          ELSE IF RLt(CR_ESIGI, TutarlilikOrani(e.lambda, n))
               THEN Basarisiz(ValueError(HATA_GECERSIZ, <<>>))
          ELSE
            LET w == Agirliklar(e.vektor, n)
            IN  [durum |-> "sonuc", hata |-> HataYok,
                 agirliklar |-> [i \in 1..n |-> [kriter |-> kriterler[i], deger |-> w[i]]],
                 lambda_maks |-> e.lambda,
                 ci |-> TutarlilikIndeksi(e.lambda, n),
                 cr |-> TutarlilikOrani(e.lambda, n)]

ahp_agirliklarini_hesapla(m, kriterler, cop, e) ==
    IF m.shape[1] # Len(kriterler)
    THEN Basarisiz(ValueError(HATA_BOYUT, <<>>))
    ELSE
      LET h == ikili_karsilastirma_matrisi_dogrula(m, ToleransPayda, cop)
          n == m.shape[1]
      IN  IF h # <<>> THEN Basarisiz(ValueError(HATA_GECERSIZ, h))
          ELSE IF n = 0 THEN Basarisiz(ValueError(HATA_ARGMAX, <<>>))
          ELSE
            LET w == Agirliklar(e.vektor, n)
            IN  [durum |-> "sonuc", hata |-> HataYok,
                 agirliklar |-> [i \in 1..n |-> [kriter |-> kriterler[i], deger |-> w[i]]],
                 lambda_maks |-> e.lambda,
                 ci |-> TutarlilikIndeksi(e.lambda, n),
                 cr |-> TutarlilikOrani(e.lambda, n)]

\* ------------------------------------------------------------------------
\* PreferenceDistanceBuilder: kullanici_maliyet_matrisi_olustur
\* ------------------------------------------------------------------------
\* KRITERLER of the caller
KRITERLER == <<"yakit_tipi", "beygir_gucu", "kapi_sayisi", "kasa_tipi">>

HATA_YAKIT == "Bilinmeyen yakit_tipi: "
HATA_KASA  == "Bilinmeyen kasa_tipi: "

\* Series.map(puanlar).astype(float) on one label: the score, nan where the
\* dict has no such key
EslePuan(puanlar, etiket) ==
    IF etiket \in DOMAIN puanlar THEN puanlar[etiket] ELSE NaN

\* x - y without the absolute value
IsaretliFark(x, y) ==
    IF x.k = "nan" \/ y.k = "nan" THEN NaN
    ELSE IF x.k = "fin" /\ y.k = "fin" THEN RSub(x, y)
    ELSE IF x.k = y.k THEN NaN
    ELSE IF x.k = "pinf" \/ y.k = "ninf" THEN PInf ELSE NInf

\* (x - y).abs() in IEEE arithmetic, on operands that are not subnormal
MutlakFark(x, y) ==
    IF x.k = "nan" \/ y.k = "nan" THEN NaN
    ELSE IF x.k = "fin" /\ y.k = "fin" THEN RAbs(RSub(x, y))
    ELSE IF x.k = y.k THEN NaN
    ELSE PInf

\* int(x) and .astype(int) on a finite number: truncation toward zero
IntCevir(x) ==
    IF x.n >= 0 THEN x.n \div x.d ELSE -((-x.n) \div x.d)

\* (a.astype(int) - int(h)).abs().astype(float)
TamMutlakFark(a, h) == Tam(Abs(IntCevir(a) - IntCevir(h)))

MaliyetYok == [durum |-> "yok", hata |-> HataYok, karar |-> <<>>, sutunlar |-> <<>>]

\* raise ValueError(f"Bilinmeyen ...: {etiket}") before karar exists
MaliyetHatasi(metin, etiket) ==
    [durum |-> "hata", hata |-> ValueError(metin \o etiket, <<>>),
     karar |-> <<>>, sutunlar |-> <<>>]

\* A builder that looks the target body style up like an item's, without
\* testing that the map has it
maliyet_kasa_sinanmadan(araclar, yakit, beygir, kapi, kasa, yakit_puanlari, kasa_puanlari) ==
    IF yakit \notin DOMAIN yakit_puanlari THEN MaliyetHatasi(HATA_YAKIT, yakit)
    ELSE
      LET yakit_hedef == yakit_puanlari[yakit]
          kasa_hedef  == EslePuan(kasa_puanlari, kasa)
      IN  [durum |-> "karar", hata |-> HataYok,
           karar |-> [i \in 1..Len(araclar) |->
                        [kimlik |-> araclar[i].kimlik,
                         yakit_tipi |-> MutlakFark(EslePuan(yakit_puanlari, araclar[i].yakit_tipi), yakit_hedef),
                         beygir_gucu |-> MutlakFark(araclar[i].beygir_gucu, beygir),
                         kapi_sayisi |-> TamMutlakFark(araclar[i].kapi_sayisi, kapi),
                         kasa_tipi |-> MutlakFark(EslePuan(kasa_puanlari, araclar[i].kasa_tipi), kasa_hedef)]],
           sutunlar |-> KRITERLER]

\* karar starts as the frame DataFrame(index=araclar.index) and receives its
\* four columns in turn; sutunlar lists the columns computed before the return
kullanici_maliyet_matrisi_olustur(araclar, yakit, beygir, kapi, kasa, yakit_puanlari, kasa_puanlari) ==
    IF yakit \notin DOMAIN yakit_puanlari THEN MaliyetHatasi(HATA_YAKIT, yakit)
    ELSE IF kasa \notin DOMAIN kasa_puanlari THEN MaliyetHatasi(HATA_KASA, kasa)
    ELSE
      LET yakit_hedef == yakit_puanlari[yakit]
          kasa_hedef  == kasa_puanlari[kasa]
          satirlar    == 1..Len(araclar)
          k1 == [i \in satirlar |->
                    MutlakFark(EslePuan(yakit_puanlari, araclar[i].yakit_tipi), yakit_hedef)]
          k2 == [i \in satirlar |-> MutlakFark(araclar[i].beygir_gucu, beygir)]
          k3 == [i \in satirlar |-> TamMutlakFark(araclar[i].kapi_sayisi, kapi)]
          k4 == [i \in satirlar |->
                    MutlakFark(EslePuan(kasa_puanlari, araclar[i].kasa_tipi), kasa_hedef)]
      IN  [durum |-> "karar", hata |-> HataYok,
           karar |-> [i \in satirlar |->
                        [kimlik |-> araclar[i].kimlik,
                         yakit_tipi |-> k1[i], beygir_gucu |-> k2[i],
                         kapi_sayisi |-> k3[i], kasa_tipi |-> k4[i]]],
           sutunlar |-> <<"yakit_tipi", "beygir_gucu", "kapi_sayisi", "kasa_tipi">>]

\* ------------------------------------------------------------------------
\* TOPSISRanker: topsis_puanlarini_hesapla
\* ------------------------------------------------------------------------
\* Square roots.  Every entry of payda, normalize, agirlikli, ideal, anti,
\* d_arti and d_eksi is s * sqrt(q) for a sign s and a rational q >= 0: the
\* record [s, q], with s = 0 exactly when q = 0.  The entries of one column
\* are rational multiples of one another, so their differences have rational
\* squares.
Isaret(p) == IF p > 0 THEN 1 ELSE IF p < 0 THEN -1 ELSE 0

\* the finite float x as a root
KokOf(x) == [s |-> Isaret(x.n), q |-> RMul(x, x)]

\* np.sqrt(r) of a rational r >= 0
Karekok(r) == [s |-> Isaret(r.n), q |-> r]

\* a / b, b # 0
KokBol(a, b) == [s |-> a.s * b.s, q |-> RDiv(a.q, b.q)]

\* a * w for a rational w
KokCarp(a, w) == [s |-> a.s * Isaret(w.n), q |-> RMul(a.q, RMul(w, w))]

\* a <= b
KokLeq(a, b) ==
    IF a.s # b.s THEN a.s < b.s
    ELSE IF a.s >= 0 THEN RLeq(a.q, b.q) ELSE RLeq(b.q, a.q)

\* the largest r in lo..hi with r * r <= p
RECURSIVE KokAra(_, _, _)
KokAra(p, lo, hi) ==
    IF lo >= hi THEN lo
    ELSE LET o == (lo + hi + 1) \div 2
         IN  IF o * o <= p THEN KokAra(p, o, hi) ELSE KokAra(p, lo, o - 1)

TamKok(p) == KokAra(p, 0, IF p < 46340 THEN p ELSE 46340)

\* sqrt(r) of a rational that is the square of a rational
RKok(r) == Kesir(TamKok(r.n), TamKok(r.d))

\* (a - b) ** 2 for two entries of one column
FarkKare(a, b) ==
    IF a.s * b.s = 0 THEN RAdd(a.q, b.q)
    ELSE RSub(RAdd(a.q, b.q), RMul(Tam(2 * a.s * b.s), RKok(RMul(a.q, b.q))))

\* np.max and np.min of a column f[1..m]
KokMax(f, m) == CHOOSE x \in {f[i] : i \in 1..m} : \A i \in 1..m : KokLeq(f[i], x)
KokMin(f, m) == CHOOSE x \in {f[i] : i \in 1..m} : \A i \in 1..m : KokLeq(x, f[i])

\* Scores.  d_eksi / (d_arti + d_eksi) for d_arti = sqrt(A), d_eksi = sqrt(B)
\* is 0/0 = nan when both are 0, 0 when only B is 0, x/x = 1 when only A is 0,
\* and 1 / (1 + sqrt(A/B)) otherwise: the record [k |-> "cebir", n, d] with
\* n/d = A/B in lowest terms, a number strictly between 0 and 1.
Bolum(d_eksi, d_arti) ==
    IF d_arti.s = 0 /\ d_eksi.s = 0 THEN NaN
    ELSE IF d_eksi.s = 0 THEN Sifir
    ELSE IF d_arti.s = 0 THEN Bir
    ELSE LET r == RDiv(d_arti.q, d_eksi.q)
         IN  [k |-> "cebir", n |-> r.n, d |-> r.d]

\* x <= y on scores; every comparison with nan is False
PuanLeq(x, y) ==
    IF x.k = "nan" \/ y.k = "nan" THEN FALSE
    ELSE IF x.k = "fin" /\ y.k = "fin" THEN RLeq(x, y)
    ELSE IF x.k = "fin" THEN x.n = 0
    ELSE IF y.k = "fin" THEN y.n > 0
    ELSE RLeq([k |-> "fin", n |-> y.n, d |-> y.d], [k |-> "fin", n |-> x.n, d |-> x.d])

\* The division of line 358 on its own, without the np.where around it
PuanKorumasiz(d_arti, d_eksi) == Bolum(d_eksi, d_arti)

\* payda = d_arti + d_eksi; np.where(payda == 0, 0.0, d_eksi / payda)
Puan(d_arti, d_eksi) ==
    IF d_arti.s = 0 /\ d_eksi.s = 0 THEN Sifir ELSE Bolum(d_eksi, d_arti)

\* Reference points that take the largest value as ideal in every direction
IdealYonsuz(kolon, m, yon) == [ideal |-> KokMax(kolon, m), anti |-> KokMin(kolon, m)]

\* ideal[j] and anti[j] of a weighted column
IdealAnti(kolon, m, yon) ==
    IF yon = "fayda"
    THEN [ideal |-> KokMax(kolon, m), anti |-> KokMin(kolon, m)]
    ELSE [ideal |-> KokMin(kolon, m), anti |-> KokMax(kolon, m)]

\* the error of a dict lookup with a key the dict does not hold
KeyError(anahtar) == [sinif |-> "KeyError", metin |-> anahtar, ayrinti |-> <<>>]

TopsisYok == [durum |-> "yok", hata |-> HataYok, puanlar |-> <<>>]

TopsisHatasi(hata) == [durum |-> "hata", hata |-> hata, puanlar |-> <<>>]

\* the first element of a non-empty set of naturals
EnKucuk(S) == CHOOSE x \in S : \A y \in S : x <= y

\* Steps 1 to 5 on a finite matrix, normalised weights w and valid directions
TopsisAdimlari(karar, sutunlar, w, yon_listesi) ==
    LET m == Len(karar)
        n == Len(sutunlar)
        matris_ == [i \in 1..m |-> [j \in 1..n |-> karar[i][sutunlar[j]]]]
        kareler == [j \in 1..n |->
                       RToplam([i \in 1..m |-> RMul(matris_[i][j], matris_[i][j])], m)]
        payda == [j \in 1..n |->
                     IF kareler[j].n = 0 THEN KokOf(Bir) ELSE Karekok(kareler[j])]
        agirlikli == [i \in 1..m |-> [j \in 1..n |->
                         KokCarp(KokBol(KokOf(matris_[i][j]), payda[j]), w[j])]]
        uc == [j \in 1..n |->
                  IdealAnti([i \in 1..m |-> agirlikli[i][j]], m, yon_listesi[j])]
        d_arti == [i \in 1..m |->
                      Karekok(RToplam([j \in 1..n |->
                                  FarkKare(agirlikli[i][j], uc[j].ideal)], n))]
        d_eksi == [i \in 1..m |->
                      Karekok(RToplam([j \in 1..n |->
                                  FarkKare(agirlikli[i][j], uc[j].anti)], n))]
    IN  [i \in 1..m |-> Puan(d_arti[i], d_eksi[i])]

\* karar: the rows of the frame, each a map from column name to float;
\* sutunlar: karar_matrisi.columns.  The result carries the scores in row
\* order (the Series shares the frame's index) or the error raised.
topsis_puanlarini_hesapla(karar, sutunlar, agirliklar, yonler) ==
    LET m == Len(karar)
        n == Len(sutunlar)
        eksik_agirlik == {j \in 1..n : sutunlar[j] \notin DOMAIN agirliklar}
        eksik_yon == {j \in 1..n : sutunlar[j] \notin DOMAIN yonler}
    IN  IF m = 0 \/ n = 0 THEN TopsisHatasi(ValueError("Karar matrisi bos olamaz.", <<>>))
        ELSE IF \E i \in 1..m, j \in 1..n : ~isfinite(karar[i][sutunlar[j]])
        THEN TopsisHatasi(ValueError(
                 "Karar matrisinde gecersiz (sonlu olmayan) deger var.", <<>>))
        ELSE IF eksik_agirlik # {}
        THEN TopsisHatasi(KeyError(sutunlar[EnKucuk(eksik_agirlik)]))
        ELSE
          LET w == [j \in 1..n |-> agirliklar[sutunlar[j]]]
          IN  IF \E j \in 1..n : ~isfinite(w[j]) \/ w[j].n < 0
              THEN TopsisHatasi(ValueError(
                       "Agirliklar pozitif ve sonlu olmalidir.", <<>>))
              ELSE
                LET w_toplam == RToplam(w, n)
                IN  IF w_toplam.n <= 0
                    THEN TopsisHatasi(ValueError(
                             "Agirliklarin toplami 0'dan buyuk olmali.", <<>>))
                    ELSE IF eksik_yon # {}
                    THEN TopsisHatasi(KeyError(sutunlar[EnKucuk(eksik_yon)]))
                    ELSE IF \E j \in 1..n : yonler[sutunlar[j]] \notin {"fayda", "maliyet"}
                    THEN TopsisHatasi(ValueError(
                             "Yonler 'fayda' veya 'maliyet' olmalidir.", <<>>))
                    ELSE [durum |-> "puan", hata |-> HataYok,
                          puanlar |-> TopsisAdimlari(
                              karar, sutunlar,
                              [j \in 1..n |-> RDiv(w[j], w_toplam)],
                              [j \in 1..n |-> yonler[sutunlar[j]]])]

\* ------------------------------------------------------------------------
\* State
\* ------------------------------------------------------------------------
VARIABLES
    matris,     \* the array the next operation is applied to
    islem,      \* the last operation
    girdi,      \* the array the last operation was applied to
    hatalar,    \* the list returned by the last validation
    karsilik,   \* the reciprocal array that validation computed
    tekrar,     \* 0: matris is a raw input; 1: it is an output of
                \* karsiliklilik_uygula; 2: of two applications in a row
    kriterler,  \* the criteria the last solve was called with
    sonuc,      \* what the last solve returned or raised
    istek,      \* the arguments of the decision-matrix build
    maliyet,    \* what the last build returned or raised
    agirliklar, \* the weights the ranking is called with
    yonler,     \* the directions the ranking is called with
    topsis,     \* what the last ranking call returned or raised
    sirali,     \* the sorted frame made from the last scores
    oturum,     \* st.session_state of the caller
    ekran       \* the widgets the caller's last run rendered

vars == <<matris, islem, girdi, hatalar, karsilik, tekrar, kriterler, sonuc,
          istek, maliyet, agirliklar, yonler, topsis, sirali, oturum, ekran>>

\* Bounds of the model
MaxN == 3
MaxDuzenleme == 1
BuyukN == 11
MaxArac == 2

\* Values a cell of an input array can hold besides the fill value
Degerler ==
    { NaN, PInf, Sifir, Tam(-8), Tiny, Tam(8), Kesir(1, 8),
      Kesir(200001, 200000), Kesir(249999, 250000) }

\* Fill values of the constant input arrays: just below and just above 1
DolguDegerleri == {Kesir(249999, 250000), Kesir(200001, 200000)}

KareSekiller == {<<n, n>> : n \in 0..MaxN}
DigerSekiller == {<<1, 2>>, <<2, 1>>, <<2>>}
TumKareSekiller == {<<n, n>> : n \in 0..BuyukN}

BosDizi == Dizi(<<0, 0>>, <<>>)

\* np.full(shape, v)
Sabit(shape, v) == Dizi(shape, [c \in Hucreler(shape) |-> v])

\* The circulant reciprocal matrix of dimension n built on a: 1 on the
\* diagonal, a where column j is less than half a turn ahead of row i, 1/a
\* where it is more than half a turn ahead, 1 at exactly half a turn
Dongusel(n, a) ==
    Dizi(<<n, n>>,
         [c \in Hucreler(<<n, n>>) |->
             LET d == (c[2] - c[1]) % n
             IN  IF d = 0 \/ 2 * d = n THEN Bir
                 ELSE IF 2 * d < n THEN a ELSE RInv(a)])

DonguselDegerleri == {Tam(8)}

\* The arrays the operations are applied to: np.ones with at most
\* MaxDuzenleme cells overwritten, the constant matrices np.full(shape, v)
\* (np.ones among them) up to dimension BuyukN, and the circulant
\* reciprocal matrices
GirdiDizisi(m) ==
    \/ \E s \in KareSekiller \cup DigerSekiller :
         \E D \in SUBSET Hucreler(s) :
            /\ Cardinality(D) <= MaxDuzenleme
            /\ \E f \in [D -> Degerler] :
                  m = Dizi(s, [c \in Hucreler(s) |-> IF c \in D THEN f[c] ELSE Bir])
    \/ \E s \in TumKareSekiller, v \in DolguDegerleri \cup {Bir} : m = Sabit(s, v)
    \/ \E s \in KareSekiller, a \in DonguselDegerleri : m = Dongusel(s[1], a)

KriterAdi(i) == IF i <= Len(KRITERLER) THEN KRITERLER[i] ELSE "kriter_" \o ToString(i)

\* Criteria lists solve is called with: one name per row, in either order,
\* and lists one shorter or one longer than the matrix
KriterListeleri(n) ==
    { [i \in 1..n |-> KriterAdi(i)], [i \in 1..n |-> KriterAdi(n + 1 - i)],
      [i \in 1..(n + 1) |-> KriterAdi(i)] }
      \cup (IF n > 0 THEN {[i \in 1..(n - 1) |-> KriterAdi(i)]} ELSE {})

Min(a, b) == IF a < b THEN a ELSE b

\* VARSAYILAN_YAKIT_PUANLARI and VARSAYILAN_KASA_PUANLARI of the caller
VARSAYILAN_YAKIT_PUANLARI ==
    [e \in {"elektrik", "hibrit", "benzin", "dizel"} |->
        CASE e = "elektrik" -> Tam(5) [] e = "hibrit" -> Tam(4)
          [] e = "benzin" -> Tam(3) [] e = "dizel" -> Tam(2)]
VARSAYILAN_KASA_PUANLARI ==
    [e \in {"hb", "sedan", "suv", "kupe"} |->
        CASE e = "hb" -> Tam(3) [] e = "sedan" -> Tam(2)
          [] e = "suv" -> Tam(4) [] e = "kupe" -> Tam(3)]

\* A map with one key removed
Eksilt(puanlar, etiket) == [e \in DOMAIN puanlar \ {etiket} |-> puanlar[e]]

\* Rows a catalog is made of, as the loader produces them: a category of the
\* known vocabulary, a float horsepower, an integer door count
Arac(kimlik, yakit, beygir, kapi, kasa) ==
    [kimlik |-> kimlik, yakit_tipi |-> yakit, beygir_gucu |-> beygir,
     kapi_sayisi |-> Tam(kapi), kasa_tipi |-> kasa]

AracHavuzu ==
    { Arac("a1", "benzin", Tam(100), 4, "sedan"),
      Arac("a2", "dizel", Kesir(301, 2), 2, "suv"),
      Arac("a3", "elektrik", Tam(100), 5, "kupe"),
      Arac("a4", "benzin", Kesir(301, 2), 4, "hb") }

\* Catalogs: up to MaxArac rows of the pool in any order, repeats included
Kataloglar == UNION {[1..n -> AracHavuzu] : n \in 0..MaxArac}

\* The build requests: a catalog, a target (categories inside and outside the
\* vocabulary), and score maps with and without a key
Istekler ==
    { [araclar |-> a, yakit_tipi |-> y, beygir_gucu |-> b, kapi_sayisi |-> k,
       kasa_tipi |-> g, yakit_puanlari |-> yp, kasa_puanlari |-> kp]
      : a \in Kataloglar,
        y \in {"benzin", "dizel", "elektrik", "lpg"},
        b \in {Tam(100), Kesir(301, 2)},
        k \in {Tam(2), Tam(4), Tam(5)},
        g \in {"sedan", "suv", "kupe", "hb", "wagon"},
        yp \in {VARSAYILAN_YAKIT_PUANLARI, Eksilt(VARSAYILAN_YAKIT_PUANLARI, "dizel")},
        kp \in {VARSAYILAN_KASA_PUANLARI, Eksilt(VARSAYILAN_KASA_PUANLARI, "suv")} }

\* No build requested: an empty catalog and the caller's default maps
BosIstek ==
    [araclar |-> <<>>, yakit_tipi |-> "benzin", beygir_gucu |-> Tam(150),
     kapi_sayisi |-> Tam(4), kasa_tipi |-> "sedan",
     yakit_puanlari |-> VARSAYILAN_YAKIT_PUANLARI,
     kasa_puanlari |-> VARSAYILAN_KASA_PUANLARI]

\* A key of st.session_state holds nothing (.get returns None) or one value:
\* the empty sequence, or the sequence of that value
Yok == <<>>

\* An empty session and a screen with no widget

BosOturum ==
    [kullanici_tercihleri |-> Yok, ikili_karsilastirma_df |-> Yok,
     ahp_sonuc |-> Yok, sirali_df |-> Yok]

\* araclar_df and the sidebar's score editors, and the widgets that exist only
\* past the st.stop() gates: the AHP button, the override checkbox ("yok": not
\* rendered, "bos": unchecked, "isaretli": checked) and the TOPSIS button
\* ("yok", "etkin": enabled, "devre_disi": disabled)
BosEkran ==
    [araclar_df |-> <<>>,
     yakit_puanlari |-> VARSAYILAN_YAKIT_PUANLARI,
     kasa_puanlari |-> VARSAYILAN_KASA_PUANLARI,
     ahp_dugmesi |-> FALSE, onay_kutusu |-> "yok", topsis_dugmesi |-> "yok"]

\* No ranking has been called
TopsisCagrilmadi ==
    /\ agirliklar = <<>>
    /\ yonler = <<>>
    /\ topsis = TopsisYok
    /\ sirali = <<>>

\* The caller is not running: no session, and no screen
UygulamaAcilmadi ==
    /\ oturum = <<>>
    /\ ekran = <<>>

Init ==
    /\ GirdiDizisi(matris)
    /\ islem = "yok"
    /\ girdi = BosDizi
    /\ hatalar = <<>>
    /\ karsilik = BosDizi
    /\ tekrar = 0
    /\ kriterler = <<>>
    /\ sonuc = SonucYok
    /\ istek = BosIstek
    /\ maliyet = MaliyetYok
    /\ TopsisCagrilmadi
    /\ UygulamaAcilmadi

\* hatalar = ikili_karsilastirma_matrisi_dogrula(matris)
Dogrula ==
    /\ \E cop \in CopSecimleri(matris) :
          /\ hatalar' = ikili_karsilastirma_matrisi_dogrula(matris, ToleransPayda, cop)
          /\ karsilik' = IF KareDegil(matris) THEN BosDizi ELSE Karsilik(matris, cop)
    /\ islem' = "dogrula"
    /\ girdi' = matris
    /\ tekrar' = Min(tekrar, 1)
    /\ kriterler' = <<>>
    /\ sonuc' = SonucYok
    /\ UNCHANGED <<matris, istek, maliyet>>
    /\ UNCHANGED <<agirliklar, yonler, topsis, sirali, oturum, ekran>>

\* matris = karsiliklilik_uygula(matris), on a square frame
Uygula ==
    /\ ~KareDegil(matris)
    /\ matris' = karsiliklilik_uygula(matris)
    /\ girdi' = matris
    /\ islem' = "uygula"
    /\ tekrar' = Min(tekrar + 1, 2)
    /\ hatalar' = <<>>
    /\ karsilik' = BosDizi
    /\ kriterler' = <<>>
    /\ sonuc' = SonucYok
    /\ UNCHANGED <<istek, maliyet>>
    /\ UNCHANGED <<agirliklar, yonler, topsis, sirali, oturum, ekran>>

\* The call reaches np.linalg.eig with a non-empty matrix
EigeUlasir(m, k) ==
    IF m.shape[1] # Len(k) THEN FALSE
    ELSE IF KareDegil(m) THEN FALSE
    ELSE IF m.shape[1] = 0 THEN FALSE
    ELSE IF PozitifSonluDegil(m) THEN FALSE
    ELSE IF KosegenBirDegil(m, ToleransPayda) THEN FALSE
    ELSE ~KarsilikliDegil(m, Karsilik(m, <<>>))

EigYok == [lambda |-> NaN, vektor |-> <<>>]

\* What np.linalg.eig may return to this call
EigSonuclari(m, k) ==
    IF ~EigeUlasir(m, k) THEN {EigYok}
    ELSE IF EigTemsilEdilir(m) THEN EigBaskin(m)
    ELSE {}

\* sonuc = ahp_agirliklarini_hesapla(matris, kriterler); a matrix whose
\* dominant eigenpair the model cannot represent is outside its inputs.
\* hatalar is the function's local list, which the raised error carries.
Hesapla ==
    /\ \E k \in KriterListeleri(matris.shape[1]) :
          /\ kriterler' = k
          /\ \E cop \in CopSecimleri(matris), e \in EigSonuclari(matris, k) :
                sonuc' = ahp_agirliklarini_hesapla(matris, k, cop, e)
    /\ hatalar' = sonuc'.hata.ayrinti
    /\ karsilik' = BosDizi
    /\ islem' = "hesapla"
    /\ girdi' = matris
    /\ tekrar' = Min(tekrar, 1)
    /\ UNCHANGED <<matris, istek, maliyet>>
    /\ UNCHANGED <<agirliklar, yonler, topsis, sirali, oturum, ekran>>

Next == Dogrula \/ Uygula \/ Hesapla

Spec == Init /\ [][Next]_vars

\* ------------------------------------------------------------------------
\* The decision-matrix build on its own
\* ------------------------------------------------------------------------
\* maliyet = kullanici_maliyet_matrisi_olustur(araclar, kullanici_... = ...)
Olustur ==
    /\ maliyet' = kullanici_maliyet_matrisi_olustur(
                      istek.araclar, istek.yakit_tipi, istek.beygir_gucu,
                      istek.kapi_sayisi, istek.kasa_tipi,
                      istek.yakit_puanlari, istek.kasa_puanlari)
    /\ UNCHANGED <<matris, islem, girdi, hatalar, karsilik, tekrar, kriterler,
                   sonuc, istek>>
    /\ UNCHANGED <<agirliklar, yonler, topsis, sirali, oturum, ekran>>

InitMaliyet ==
    /\ matris = Birler(<<Len(KRITERLER), Len(KRITERLER)>>)
    /\ islem = "yok"
    /\ girdi = BosDizi
    /\ hatalar = <<>>
    /\ karsilik = BosDizi
    /\ tekrar = 0
    /\ kriterler = <<>>
    /\ sonuc = SonucYok
    /\ istek \in Istekler
    /\ maliyet = MaliyetYok
    /\ TopsisCagrilmadi
    /\ UygulamaAcilmadi

NextMaliyet == Olustur

SpecMaliyet == InitMaliyet /\ [][NextMaliyet]_vars

\* ------------------------------------------------------------------------
\* The ranking on its own
\* ------------------------------------------------------------------------
MaxSatir == 3

\* Rows of a decision matrix: distances in two of the caller's columns, a
\* negative cell and non-finite cells among them
Satir(beygir, kapi) == [beygir_gucu |-> beygir, kapi_sayisi |-> kapi]

SatirHavuzu ==
    { Satir(Tam(50), Sifir), Satir(Sifir, Sifir), Satir(Tam(100), Tam(2)),
      Satir(Tam(-50), Bir), Satir(NaN, Sifir), Satir(Tam(50), PInf) }

IkiSutun == <<"beygir_gucu", "kapi_sayisi">>

\* Frames: up to MaxSatir rows of the pool in any order, repeats included,
\* under two columns, and a frame of one row and no column
Cerceveler ==
    { [karar |-> k, sutunlar |-> IkiSutun]
        : k \in UNION {[1..n -> SatirHavuzu] : n \in 0..MaxSatir} }
      \cup { [karar |-> <<Satir(Tam(50), Sifir)>>, sutunlar |-> <<>>] }

Esle(b, k) == [s \in {"beygir_gucu", "kapi_sayisi"} |-> IF s = "beygir_gucu" THEN b ELSE k]

\* Weight maps: normalised and not, with a zero, all zero, negative,
\* non-finite, and with a column missing
AgirlikSecenekleri ==
    { Esle(Bir, Sifir), Esle(Kesir(1, 2), Kesir(1, 2)), Esle(Tam(2), Tam(6)),
      Esle(Sifir, Sifir), Esle(Tam(-1), Tam(2)), Esle(NaN, Bir),
      Esle(Bir, PInf), [s \in {"beygir_gucu"} |-> Bir] }

YonSecenekleri ==
    { Esle("maliyet", "maliyet"), Esle("fayda", "maliyet"),
      Esle("maliyet", "diger"), [s \in {"beygir_gucu"} |-> "maliyet"] }

\* sirali = araclar_df.copy(); sirali["topsis_puani"] = puanlar;
\* sort_values("topsis_puani", ascending=False).reset_index(drop=True);
\* sirali["sira"] = 1..len.  The scores join the rows on the shared index.
\* sort_values sorts with kind="quicksort", which orders rows of equal score
\* in no particular way: every descending order is a possible outcome.
\* konum is the label the row had before reset_index.
SiraliSonuclar(satirlar, puanlar) ==
    LET n == Len(satirlar)
        Azalan(p) == \A r \in 1..(n - 1) : PuanLeq(puanlar[p[r + 1]], puanlar[p[r]])
    IN  { [r \in 1..n |->
              [satir |-> satirlar[p[r]], konum |-> p[r],
               topsis_puani |-> puanlar[p[r]], sira |-> r]]
          : p \in {q \in Permutations(1..n) : Azalan(q)} }

\* puanlar = topsis_puanlarini_hesapla(karar, agirliklar=..., yonler=...),
\* the one call of a request
Puanla ==
    /\ topsis.durum = "yok"
    /\ topsis' = topsis_puanlarini_hesapla(maliyet.karar, maliyet.sutunlar,
                                           agirliklar, yonler)
    /\ UNCHANGED <<matris, islem, girdi, hatalar, karsilik, tekrar, kriterler,
                   sonuc, istek, maliyet, agirliklar, yonler, sirali, oturum, ekran>>

\* the sort of the scores the ranking returned, which follows the call
Sirala ==
    /\ topsis.durum = "puan"
    /\ sirali = <<>>
    /\ sirali' \in SiraliSonuclar(maliyet.karar, topsis.puanlar)
    /\ UNCHANGED <<matris, islem, girdi, hatalar, karsilik, tekrar, kriterler,
                   sonuc, istek, maliyet, agirliklar, yonler, topsis, oturum, ekran>>

InitTopsis ==
    /\ matris = Birler(<<Len(KRITERLER), Len(KRITERLER)>>)
    /\ islem = "yok"
    /\ girdi = BosDizi
    /\ hatalar = <<>>
    /\ karsilik = BosDizi
    /\ tekrar = 0
    /\ kriterler = <<>>
    /\ sonuc = SonucYok
    /\ istek = BosIstek
    /\ \E c \in Cerceveler :
          maliyet = [durum |-> "karar", hata |-> HataYok,
                     karar |-> c.karar, sutunlar |-> c.sutunlar]
    /\ agirliklar \in AgirlikSecenekleri
    /\ yonler \in YonSecenekleri
    /\ topsis = TopsisYok
    /\ sirali = <<>>
    /\ UygulamaAcilmadi

NextTopsis == Puanla \/ Sirala

SpecTopsis == InitTopsis /\ [][NextTopsis]_vars

\* ------------------------------------------------------------------------
\* The caller: one run of app.py per interaction
\* ------------------------------------------------------------------------
TOPSIS_YONLERI == [k \in {KRITERLER[i] : i \in 1..Len(KRITERLER)} |-> "maliyet"]

\* ahp_sonuc.agirliklar.to_dict()
SozlugeCevir(seri) ==
    [k \in {seri[i].kriter : i \in 1..Len(seri)} |->
        seri[CHOOSE i \in 1..Len(seri) : seri[i].kriter = k].deger]

\* Lines 235-238: the stored matrix, or the default one where none is stored
MatrisiYerlestir(o) ==
    IF o.ikili_karsilastirma_df # Yok THEN o
    ELSE [o EXCEPT !.ikili_karsilastirma_df =
                       <<Birler(<<Len(KRITERLER), Len(KRITERLER)>>)>>]

\* A store that keeps the repaired matrix whatever the solver did
AhpSaklaHerZaman(o, ikili_matris, ahp_sonuc) ==
    IF ahp_sonuc.durum = "sonuc"
    THEN [o EXCEPT !.ahp_sonuc = <<ahp_sonuc>>,
                   !.ikili_karsilastirma_df = <<ikili_matris>>]
    ELSE [o EXCEPT !.ikili_karsilastirma_df = <<ikili_matris>>]

\* Lines 247-248, which an exception of line 245 or 246 skips
AhpSakla(o, ikili_matris, ahp_sonuc) ==
    IF ahp_sonuc.durum = "sonuc"
    THEN [o EXCEPT !.ahp_sonuc = <<ahp_sonuc>>,
                   !.ikili_karsilastirma_df = <<ikili_matris>>]
    ELSE o

\* Line 305, which an exception of lines 284-303 skips
TopsisSakla(o, puanlar, sirali_) ==
    IF puanlar.durum = "puan" THEN [o EXCEPT !.sirali_df = <<sirali_>>] ELSE o

\* A screen whose TOPSIS button is enabled whatever the consistency ratio
GoruntuleEsiksiz(o, ek, isaretli) ==
    IF o.kullanici_tercihleri = Yok
    THEN [ek EXCEPT !.ahp_dugmesi = FALSE, !.onay_kutusu = "yok",
                    !.topsis_dugmesi = "yok"]
    ELSE IF o.ahp_sonuc = Yok
    THEN [ek EXCEPT !.ahp_dugmesi = TRUE, !.onay_kutusu = "yok",
                    !.topsis_dugmesi = "yok"]
    ELSE [ek EXCEPT !.ahp_dugmesi = TRUE, !.onay_kutusu = "yok",
                    !.topsis_dugmesi = "etkin"]

\* The widgets a run renders from the session it ends with: st.stop() at 228
\* without preferences, at 256 without an AHP result; past them the checkbox
\* exists only where cr > CR_ESIGI and the button is disabled unless devam_et.
\* isaretli is the value of the checkbox in this run: the checkbox keeps its
\* value from run to run while it is rendered.
Goruntule(o, ek, isaretli) ==
    IF o.kullanici_tercihleri = Yok
    THEN [ek EXCEPT !.ahp_dugmesi = FALSE, !.onay_kutusu = "yok",
                    !.topsis_dugmesi = "yok"]
    ELSE IF o.ahp_sonuc = Yok
    THEN [ek EXCEPT !.ahp_dugmesi = TRUE, !.onay_kutusu = "yok",
                    !.topsis_dugmesi = "yok"]
    ELSE IF RLt(CR_ESIGI, o.ahp_sonuc[1].cr)
    THEN [ek EXCEPT !.ahp_dugmesi = TRUE,
                    !.onay_kutusu = IF isaretli THEN "isaretli" ELSE "bos",
                    !.topsis_dugmesi = IF isaretli THEN "etkin" ELSE "devre_disi"]
    ELSE [ek EXCEPT !.ahp_dugmesi = TRUE, !.onay_kutusu = "yok",
                    !.topsis_dugmesi = "etkin"]

\* The datasets of a session: none of its rows valid; three vehicles, the
\* first and the last alike; a vehicle of infinite horsepower
UygulamaKataloglari ==
    { <<>>,
      <<Arac("a1", "benzin", Tam(100), 4, "sedan"),
        Arac("a2", "dizel", Tam(200), 2, "suv"),
        Arac("a3", "benzin", Tam(100), 4, "sedan")>>,
      <<Arac("a1", "benzin", Tam(100), 4, "sedan"),
        Arac("a2", "dizel", PInf, 2, "suv")>> }

\* What the preference form can submit
Tercihler ==
    { [yakit_tipi |-> "benzin", beygir_gucu |-> Tam(150), kapi_sayisi |-> Tam(4),
       kasa_tipi |-> "sedan"],
      [yakit_tipi |-> "dizel", beygir_gucu |-> Tam(100), kapi_sayisi |-> Tam(2),
       kasa_tipi |-> "suv"] }

\* What the fuel score editor can hold: the defaults, and a cell left empty
YakitPuanSecenekleri ==
    { VARSAYILAN_YAKIT_PUANLARI,
      [VARSAYILAN_YAKIT_PUANLARI EXCEPT !["dizel"] = NaN] }

\* What the matrix editor can hold when "AHP Hesapla" is pressed: the default,
\* a consistent matrix, an inconsistent one, and one with a subnormal cell
DuzenlenenMatrisler ==
    LET n == Len(KRITERLER)
    IN  { Birler(<<n, n>>),
          Dizi(<<n, n>>, [c \in Hucreler(<<n, n>>) |->
                            IF c[1] = 1 /\ c[2] > 1 THEN Tam(8) ELSE Bir]),
          Dongusel(n, Tam(8)),
          Dizi(<<n, n>>, [c \in Hucreler(<<n, n>>) |->
                            IF c = <<1, 2>> THEN Tiny ELSE Bir]) }

\* A run that calls none of the core functions leaves their records empty
CekirdekCagrilmadi ==
    /\ sonuc' = SonucYok
    /\ maliyet' = MaliyetYok
    /\ agirliklar' = <<>>
    /\ yonler' = <<>>
    /\ topsis' = TopsisYok
    /\ sirali' = <<>>

\* "Tercihleri Kaydet": lines 217-223, then the rest of the run
TercihleriKaydet ==
    /\ \E t \in Tercihler :
          /\ t.yakit_tipi \in DOMAIN ekran.yakit_puanlari
          /\ t.kasa_tipi \in DOMAIN ekran.kasa_puanlari
          /\ oturum' = MatrisiYerlestir([oturum EXCEPT !.kullanici_tercihleri = <<t>>])
    /\ ekran' = Goruntule(oturum', ekran, ekran.onay_kutusu = "isaretli")
    /\ islem' = "kaydet"
    /\ CekirdekCagrilmadi
    /\ UNCHANGED <<matris, girdi, hatalar, karsilik, tekrar, kriterler, istek>>

\* An edit of the fuel scores in the sidebar: lines 195-196, then the rest of
\* the run
PuanlariDuzenle ==
    /\ \E yp \in YakitPuanSecenekleri :
          /\ oturum' = IF oturum.kullanici_tercihleri = Yok THEN oturum
                        ELSE MatrisiYerlestir(oturum)
          /\ ekran' = Goruntule(oturum', [ekran EXCEPT !.yakit_puanlari = yp],
                                       ekran.onay_kutusu = "isaretli")
    /\ islem' = "duzenle"
    /\ CekirdekCagrilmadi
    /\ UNCHANGED <<matris, girdi, hatalar, karsilik, tekrar, kriterler, istek>>

\* "AHP Hesapla" on the matrix the editor holds: lines 242-251, then the rest
\* of the run
AhpHesapla ==
    /\ ekran.ahp_dugmesi
    /\ \E d \in DuzenlenenMatrisler :
          /\ matris' = d
          /\ \E ikili_matris \in {karsiliklilik_uygula(d)} :
               \E cop \in CopSecimleri(ikili_matris),
                  e \in EigSonuclari(ikili_matris, KRITERLER) :
                  \E ahp_sonuc \in
                        {ahp_agirliklarini_hesapla(ikili_matris, KRITERLER, cop, e)} :
                     /\ sonuc' = ahp_sonuc
                     /\ oturum' = AhpSakla(MatrisiYerlestir(oturum),
                                           ikili_matris, ahp_sonuc)
    /\ ekran' = Goruntule(oturum', ekran, ekran.onay_kutusu = "isaretli")
    /\ islem' = "ahp"
    /\ maliyet' = MaliyetYok
    /\ agirliklar' = <<>>
    /\ yonler' = <<>>
    /\ topsis' = TopsisYok
    /\ sirali' = <<>>
    /\ UNCHANGED <<girdi, hatalar, karsilik, tekrar, kriterler, istek>>

\* A click on "Yine de TOPSIS calistir": line 276, then the rest of the run
OnayDegistir ==
    /\ ekran.onay_kutusu # "yok"
    /\ oturum' = MatrisiYerlestir(oturum)
    /\ ekran' = Goruntule(oturum', ekran, ekran.onay_kutusu # "isaretli")
    /\ islem' = "onay"
    /\ CekirdekCagrilmadi
    /\ UNCHANGED <<matris, girdi, hatalar, karsilik, tekrar, kriterler, istek>>

\* "TOPSIS Calistir", which a disabled button does not deliver: lines
\* 280-308, the build, the ranking, the sort and the store
TopsisCalistir ==
    /\ ekran.topsis_dugmesi = "etkin"
    /\ \E t \in {oturum.kullanici_tercihleri[1]} :
        \E karar \in
              {kullanici_maliyet_matrisi_olustur(
                   ekran.araclar_df, t.yakit_tipi, t.beygir_gucu, t.kapi_sayisi,
                   t.kasa_tipi, ekran.yakit_puanlari, ekran.kasa_puanlari)} :
        \E w \in {SozlugeCevir(oturum.ahp_sonuc[1].agirliklar)} :
        \E puanlar \in
              {IF karar.durum = "hata" THEN TopsisYok
               ELSE topsis_puanlarini_hesapla(karar.karar, karar.sutunlar,
                                              w, TOPSIS_YONLERI)} :
        \E sirali_ \in
              (IF puanlar.durum = "puan"
               THEN SiraliSonuclar(ekran.araclar_df, puanlar.puanlar)
               ELSE {<<>>}) :
           /\ maliyet' = karar
           /\ agirliklar' = IF karar.durum = "hata" THEN <<>> ELSE w
           /\ yonler' = IF karar.durum = "hata" THEN <<>> ELSE TOPSIS_YONLERI
           /\ topsis' = puanlar
           /\ sirali' = sirali_
           /\ oturum' = TopsisSakla(MatrisiYerlestir(oturum), puanlar, sirali_)
    /\ ekran' = Goruntule(oturum', ekran, ekran.onay_kutusu = "isaretli")
    /\ islem' = "topsis"
    /\ sonuc' = SonucYok
    /\ UNCHANGED <<matris, girdi, hatalar, karsilik, tekrar, kriterler, istek>>

\* The first run of a session: no preferences stored, st.stop() at line 228
InitUygulama ==
    /\ matris = Birler(<<Len(KRITERLER), Len(KRITERLER)>>)
    /\ islem = "yok"
    /\ girdi = BosDizi
    /\ hatalar = <<>>
    /\ karsilik = BosDizi
    /\ tekrar = 0
    /\ kriterler = KRITERLER
    /\ sonuc = SonucYok
    /\ istek = BosIstek
    /\ maliyet = MaliyetYok
    /\ TopsisCagrilmadi
    /\ oturum = BosOturum
    /\ \E k \in UygulamaKataloglari :
          ekran = Goruntule(BosOturum, [BosEkran EXCEPT !.araclar_df = k], FALSE)

NextUygulama ==
    \/ TercihleriKaydet
    \/ PuanlariDuzenle
    \/ AhpHesapla
    \/ OnayDegistir
    \/ TopsisCalistir

SpecUygulama == InitUygulama /\ [][NextUygulama]_vars

\* ------------------------------------------------------------------------
\* Properties of the validator
\* ------------------------------------------------------------------------
\* The violations of a square matrix m whose reciprocal array is kars: every
\* failing check's message, in the order positivity, diagonal, reciprocity
C1_Beklenen(m, kars) ==
    LET Ihlal(h) == CASE h = HATA_POZITIF  -> PozitifSonluDegil(m)
                      [] h = HATA_KOSEGEN  -> KosegenBirDegil(m, ToleransPayda)
                      [] h = HATA_KARSILIK -> KarsilikliDegil(m, kars)
    IN  SelectSeq(<<HATA_POZITIF, HATA_KOSEGEN, HATA_KARSILIK>>, Ihlal)

\* C1: on an input that is not a square 2-D matrix the validator returns
\* exactly the shape violation and evaluates no other check (no reciprocal
\* array is computed); on a square matrix each of the positivity/finiteness,
\* diagonal and reciprocity checks that fails contributes its violation,
\* whatever the earlier checks found, in that order.
C1_HerIhlalSirayla ==
    islem = "dogrula" =>
        IF KareDegil(girdi)
        THEN hatalar = <<HATA_KARE>> /\ karsilik = BosDizi
        ELSE hatalar = C1_Beklenen(girdi, karsilik)

\* A validation that found all three violations at once
C1_Tanik == islem = "dogrula" /\ Len(hatalar) = 3

\* Every cell is finite and > 0
HerHucrePozitifSonlu(m) ==
    \A c \in DOMAIN m.a :
        IF m.a[c].k = "tiny" THEN TRUE
        ELSE IF m.a[c].k = "fin" THEN m.a[c].n > 0 ELSE FALSE

\* |x - 1| <= 1/payda for a finite float x
BireYakin(x, payda) == WithinTolBuyuk(Rasyonel(x), Bir, 1, payda, 0, 1)

\* |x * y - 1| <= 1/payda for positive finite floats x and y, decided exactly:
\* with X = x.n*y.n and Y = x.d*y.d it reads |X - Y| * payda <= Y
CarpimBireYakin(x, y, payda) ==
    LET X == BMul(BigOf(Rasyonel(x).n), BigOf(Rasyonel(y).n))
        Y == BMul(BigOf(Rasyonel(x).d), BigOf(Rasyonel(y).d))
        P == BigOf(payda)
    IN  IF BLeq(Y, X)
        THEN BLeq(BMul(X, P), BAdd(Y, BMul(Y, P)))
        ELSE BLeq(BMul(Y, P), BAdd(Y, BMul(X, P)))

\* The three conditions with the tolerances 1e-8 and 1e-6 taken as absolute
UcKosul(m) ==
    IF ~HerHucrePozitifSonlu(m) THEN FALSE
    ELSE /\ \A i \in 1..m.shape[1] : BireYakin(m.a[<<i, i>>], 10^8)
         /\ \A c \in DOMAIN m.a :
                CarpimBireYakin(m.a[c], m.a[<<c[2], c[1]>>], 10^6)

\* C2: for every square matrix the validator returns the empty list if and
\* only if every cell is finite and > 0, every diagonal cell differs from 1 by
\* at most 1e-8, and every product cell[i][j] * cell[j][i] is within 1e-6 of 1.
\* The code does not satisfy this: np.allclose adds its default relative
\* tolerance 1e-5 * |b| to atol, so [[1.000005]] validates to the empty list.
C2_BosListeUcKosul ==
    (islem = "dogrula" /\ ~KareDegil(girdi)) =>
        ((hatalar = <<>>) <=> UcKosul(girdi))

\* ------------------------------------------------------------------------
\* Properties of the repair step
\* ------------------------------------------------------------------------
\* C3: validation of an output of karsiliklilik_uygula returns the empty
\* list, and the solver called on such an output with one criterion per row
\* raises no validation error.  The code does not satisfy this: a positive
\* upper entry below 1/DBL_MAX (5e-324) is kept and its mirror 1.0/v is inf.
C3_OnarimdanSonraGecerli ==
    /\ (islem = "dogrula" /\ tekrar >= 1) => hatalar = <<>>
    /\ (islem = "hesapla" /\ tekrar >= 1 /\ Len(kriterler) = girdi.shape[1])
          => sonuc.hata.metin # HATA_GECERSIZ

\* x is not finite or x <= 0
SonluPozitifDegil(x) ==
    IF x.k \in {"nan", "pinf", "ninf"} THEN TRUE
    ELSE IF x.k = "fin" THEN x.n <= 0 ELSE FALSE

\* y is what the float division 1.0 / x yields for a positive finite x: the
\* reciprocal d/n of n/d, and inf where x is too small for 1/x to be finite
TersiDir(y, x) ==
    IF x.k = "fin" THEN y.k = "fin" /\ y.n = x.d /\ y.d = x.n
    ELSE x.k = "tiny" /\ y = PInf

\* C4: karsiliklilik_uygula is defined on every square input; its result has
\* the input's shape, 1 on the diagonal, above the diagonal the input's entry
\* with every non-finite or <= 0 entry replaced by 1.0, and below the diagonal
\* the reciprocal 1.0/v of the mirrored upper entry; applying it to its own
\* result returns that result unchanged.
C4_OnarimTamVeEsguclu ==
    /\ ~KareDegil(matris) => ENABLED Uygula
    /\ islem = "uygula" =>
          /\ matris.ndim = 2 /\ matris.shape = girdi.shape
          /\ DOMAIN matris.a = DOMAIN girdi.a
          /\ \A c \in DOMAIN matris.a :
                IF c[1] = c[2] THEN matris.a[c] = Bir
                ELSE IF c[1] < c[2]
                     THEN matris.a[c] =
                            (IF SonluPozitifDegil(girdi.a[c]) THEN Bir ELSE girdi.a[c])
                     ELSE TersiDir(matris.a[c], matris.a[<<c[2], c[1]>>])
          /\ tekrar = 2 => matris = girdi

\* A second application in a row, on a matrix holding the pair 8 and 1/8
C4_Tanik ==
    /\ islem = "uygula" /\ tekrar = 2
    /\ \E c \in DOMAIN matris.a :
          c[1] < c[2] /\ matris.a[c] = Tam(8) /\ matris.a[<<c[2], c[1]>>] = Kesir(1, 8)

\* ------------------------------------------------------------------------
\* Properties of the solver
\* ------------------------------------------------------------------------
\* The validator reports at least one violation on m
DogrulamaIhlalli(m) ==
    \E cop \in CopSecimleri(m) :
        ikili_karsilastirma_matrisi_dogrula(m, ToleransPayda, cop) # <<>>

\* The call failed with the solver's own ValueError and returned no weights
GecersizGirdiHatasi ==
    /\ sonuc.durum = "hata" /\ sonuc.agirliklar = <<>>
    /\ sonuc.hata.sinif = "ValueError"
    /\ sonuc.hata.metin \in {HATA_BOYUT, HATA_GECERSIZ}

\* C5 as the specification states it: the solver fails with its
\* invalid-input error exactly when the dimension differs from the number of
\* criteria or validation reports a violation, and returns a result in every
\* other case.  The 0 x 0 matrix with no criteria refutes it.
C5_Iddia ==
    islem = "hesapla" =>
        IF girdi.shape[1] # Len(kriterler) THEN GecersizGirdiHatasi
        ELSE IF DogrulamaIhlalli(girdi) THEN GecersizGirdiHatasi
        ELSE sonuc.durum = "sonuc"

\* C5: the solver fails with its invalid-input error exactly when the
\* dimension differs from the number of criteria or validation reports a
\* violation; on every other matrix of dimension n >= 1 it returns a result,
\* whatever the consistency ratio; on the 0 x 0 matrix with no criteria, which
\* passes both tests, it fails with the ValueError np.argmax raises on the
\* empty eigenvalue array.
C5_HataTamOlarak ==
    islem = "hesapla" =>
        IF girdi.shape[1] # Len(kriterler) THEN GecersizGirdiHatasi
        ELSE IF DogrulamaIhlalli(girdi) THEN GecersizGirdiHatasi
        ELSE IF girdi.shape[1] = 0
             THEN sonuc.durum = "hata" /\ sonuc.hata.metin = HATA_ARGMAX
        ELSE sonuc.durum = "sonuc"

\* A result whose consistency ratio is above the caller's threshold 0.10
C5_Tanik ==
    islem = "hesapla" /\ sonuc.durum = "sonuc" /\ RLt(CR_ESIGI, sonuc.cr)

\* C6: the weights of a result are one per criterion, keyed by the criteria in
\* the order they were passed, each >= 0, and they sum to 1 within 1e-9.
C6_AgirliklarToplamiBir ==
    (islem = "hesapla" /\ sonuc.durum = "sonuc") =>
        LET w == sonuc.agirliklar
        IN  /\ Len(w) = Len(kriterler)
            /\ \A i \in 1..Len(w) : w[i].kriter = kriterler[i]
            /\ \A i \in 1..Len(w) : w[i].deger.k = "fin" /\ w[i].deger.n >= 0
            /\ WithinTolBuyuk(RToplam([i \in 1..Len(w) |-> w[i].deger], Len(w)),
                              Bir, 1, 10^9, 0, 1)

\* A result with unequal weights, keyed by criteria passed in reverse order
C6_Tanik ==
    /\ islem = "hesapla" /\ sonuc.durum = "sonuc" /\ Len(kriterler) >= 2
    /\ kriterler[1] = KriterAdi(Len(kriterler))
    /\ sonuc.agirliklar[1].deger # sonuc.agirliklar[2].deger

\* C7: on the n x n all-ones matrix, n in 1..10, with n criteria the solver
\* returns lambda_maks = n, ci = 0, cr = 0 and the weight 1/n for every
\* criterion; with the caller's four criteria the weights are 0.25 each.
C7_BirlerMatrisi ==
    LET n == girdi.shape[1]
    IN  (islem = "hesapla" /\ n \in 1..10 /\ girdi = Birler(<<n, n>>)
            /\ Len(kriterler) = n) =>
            /\ sonuc.durum = "sonuc"
            /\ sonuc.lambda_maks = Tam(n)
            /\ sonuc.ci = Sifir /\ sonuc.cr = Sifir
            /\ \A i \in 1..n : sonuc.agirliklar[i].deger = Kesir(1, n)
            /\ kriterler = KRITERLER =>
                  sonuc.agirliklar = [i \in 1..4 |->
                                        [kriter |-> KRITERLER[i], deger |-> Kesir(25, 100)]]

\* The solve of the caller's default 4 x 4 matrix with its four criteria
C7_Tanik ==
    /\ islem = "hesapla" /\ girdi = Birler(<<4, 4>>) /\ kriterler = KRITERLER
    /\ sonuc.durum = "sonuc"

\* The Random Index values n = 3..10 as the claim lists them, in hundredths
C8_RI == <<0, 0, 58, 90, 112, 124, 132, 141, 145, 149>>

\* C8: in every result ci = max((lambda_maks - n)/(n - 1), 0) for n > 1 and
\* ci = 0 for n = 1; cr = max(ci/RI(n), 0) for n = 3..10 with RI = 0.58, 0.90,
\* 1.12, 1.24, 1.32, 1.41, 1.45, 1.49; cr = 0 for n = 1, n = 2 and n > 10,
\* where the solver still returns a result; ci and cr are never negative.
C8_TutarlilikOlculeri ==
    (islem = "hesapla" /\ sonuc.durum = "sonuc") =>
        LET n == girdi.shape[1]
            l == sonuc.lambda_maks
        IN  /\ sonuc.ci = (IF n > 1
                           THEN RMax(RDiv(RSub(l, Tam(n)), Tam(n - 1)), Sifir)
                           ELSE Sifir)
            /\ sonuc.cr = (IF n \in 3..10
                           THEN RMax(RDiv(sonuc.ci, Kesir(C8_RI[n], 100)), Sifir)
                           ELSE Sifir)
            /\ sonuc.ci.k = "fin" /\ sonuc.ci.n >= 0
            /\ sonuc.cr.k = "fin" /\ sonuc.cr.n >= 0

\* A result for more than 10 criteria whose lambda_maks is below n, so that
\* the clamp acts and no Random Index exists
C8_Tanik ==
    /\ islem = "hesapla" /\ sonuc.durum = "sonuc"
    /\ girdi.shape[1] > 10
    /\ RLt(sonuc.lambda_maks, Tam(girdi.shape[1]))
    /\ sonuc.ci = Sifir /\ sonuc.cr = Sifir

\* ------------------------------------------------------------------------
\* Properties of the decision-matrix build
\* ------------------------------------------------------------------------
\* C9: whenever the target fuel type is not a key of the fuel score map or the
\* target body style is not a key of the body-style score map, the build
\* fails with the unknown-category ValueError naming that value; it fails
\* before any column is computed and returns no decision matrix.
C9_BilinmeyenKategori ==
    maliyet.durum # "yok" =>
        /\ istek.yakit_tipi \notin DOMAIN istek.yakit_puanlari =>
                maliyet.hata.metin = HATA_YAKIT \o istek.yakit_tipi
        /\ (istek.yakit_tipi \in DOMAIN istek.yakit_puanlari
              /\ istek.kasa_tipi \notin DOMAIN istek.kasa_puanlari) =>
                maliyet.hata.metin = HATA_KASA \o istek.kasa_tipi
        /\ (istek.yakit_tipi \notin DOMAIN istek.yakit_puanlari
              \/ istek.kasa_tipi \notin DOMAIN istek.kasa_puanlari) =>
                /\ maliyet.durum = "hata"
                /\ maliyet.hata.sinif = "ValueError"
                /\ maliyet.karar = <<>>
                /\ maliyet.sutunlar = <<>>

\* The target body style "wagon" against the map of hb, sedan, suv and kupe,
\* with a known fuel type and a catalog of two rows
C9_Tanik ==
    /\ maliyet.durum = "hata"
    /\ istek.kasa_tipi = "wagon"
    /\ DOMAIN istek.kasa_puanlari = {"hb", "sedan", "suv", "kupe"}
    /\ istek.yakit_tipi \in DOMAIN istek.yakit_puanlari
    /\ Len(istek.araclar) = 2

\* The target equals row k's own fuel type, horsepower, door count and body
\* style
HedefAracinKendisi(k) ==
    /\ istek.yakit_tipi = istek.araclar[k].yakit_tipi
    /\ istek.beygir_gucu = istek.araclar[k].beygir_gucu
    /\ istek.kapi_sayisi = istek.araclar[k].kapi_sayisi
    /\ istek.kasa_tipi = istek.araclar[k].kasa_tipi

\* The score maps define every category the catalog uses
HerKategoriTanimli ==
    \A i \in 1..Len(istek.araclar) :
        /\ istek.araclar[i].yakit_tipi \in DOMAIN istek.yakit_puanlari
        /\ istek.araclar[i].kasa_tipi \in DOMAIN istek.kasa_puanlari

\* C10: with score maps that define every category used and a target equal to
\* row k's own values, the build returns one row per catalog row in the
\* catalog's order, every cell is a number >= 0, and row k is zero in all
\* four criterion columns.
C10_KendiHedefiSifirSatir ==
    (maliyet.durum # "yok" /\ HerKategoriTanimli) =>
        \A k \in 1..Len(istek.araclar) :
            HedefAracinKendisi(k) =>
                /\ maliyet.durum = "karar"
                /\ maliyet.sutunlar = KRITERLER
                /\ Len(maliyet.karar) = Len(istek.araclar)
                /\ \A i \in 1..Len(istek.araclar) :
                      /\ maliyet.karar[i].kimlik = istek.araclar[i].kimlik
                      /\ \A s \in {"yakit_tipi", "beygir_gucu", "kapi_sayisi", "kasa_tipi"} :
                            /\ maliyet.karar[i][s].k = "fin"
                            /\ maliyet.karar[i][s].n >= 0
                /\ \A s \in {"yakit_tipi", "beygir_gucu", "kapi_sayisi", "kasa_tipi"} :
                      maliyet.karar[k][s] = Sifir

\* A matrix of two different rows built for the second row's own values: the
\* second row is zero and the first is not
C10_Tanik ==
    /\ maliyet.durum = "karar" /\ HerKategoriTanimli
    /\ Len(istek.araclar) = 2 /\ HedefAracinKendisi(2)
    /\ istek.araclar[1].kimlik = "a2" /\ istek.araclar[2].kimlik = "a1"
    /\ maliyet.karar[1].beygir_gucu = Kesir(101, 2)
    /\ maliyet.karar[2].beygir_gucu = Sifir
\* ------------------------------------------------------------------------
\* Properties of the ranking
\* ------------------------------------------------------------------------
\* The inputs of the last ranking call
C11_Satirlar == 1..Len(maliyet.karar)
C11_Sutunlar == {maliyet.sutunlar[j] : j \in 1..Len(maliyet.sutunlar)}

C11_Bos == Len(maliyet.karar) = 0 \/ Len(maliyet.sutunlar) = 0

C11_AgirlikEksik == \E s \in C11_Sutunlar : s \notin DOMAIN agirliklar

C11_AgirlikKotu ==
    \E s \in C11_Sutunlar \cap DOMAIN agirliklar :
        agirliklar[s].k # "fin" \/ agirliklar[s].n < 0

C11_ToplamPozitifDegil ==
    /\ ~C11_AgirlikEksik
    /\ ~C11_AgirlikKotu
    /\ LET n == Len(maliyet.sutunlar)
       IN  RToplam([j \in 1..n |-> agirliklar[maliyet.sutunlar[j]]], n).n <= 0

C11_YonKotu ==
    \E s \in C11_Sutunlar \cap DOMAIN yonler : yonler[s] \notin {"fayda", "maliyet"}

C11_HucreSonsuz ==
    \E i \in C11_Satirlar, s \in C11_Sutunlar : maliyet.karar[i][s].k # "fin"

C11_GecersizGirdi ==
    \/ C11_Bos
    \/ C11_AgirlikEksik
    \/ C11_AgirlikKotu
    \/ C11_ToplamPozitifDegil
    \/ C11_YonKotu
    \/ C11_HucreSonsuz

\* C11: a ranking call on an empty matrix, with the weight of a column
\* missing, negative or non-finite, with weights that sum to 0 or less, with
\* a direction other than fayda and maliyet, or with a non-finite cell raises
\* an error of one and the same kind, ValueError, and returns no scores.
C11_Iddia ==
    (topsis.durum # "yok" /\ C11_GecersizGirdi)
        => /\ topsis.durum = "hata"
           /\ topsis.hata.sinif = "ValueError"
           /\ topsis.puanlar = <<>>

\* A score in [0, 1]: 0, 1, or 1 / (1 + sqrt(n/d)) with n/d > 0
C12_SifirBirArasi(x) ==
    \/ x.k = "fin" /\ RLeq(Sifir, x) /\ RLeq(x, Bir)
    \/ x.k = "cebir" /\ x.n > 0 /\ x.d > 0

\* Column s holds one value in every row
C12_SabitSutun(s) ==
    \A i, k \in C11_Satirlar : maliyet.karar[i][s] = maliyet.karar[k][s]

\* No column can tell two items apart: each is constant or has weight 0
C12_AyirtEdilmez ==
    \A s \in C11_Sutunlar : C12_SabitSutun(s) \/ agirliklar[s].n = 0

\* C12: every score of an accepted input is a number in [0, 1]; where the
\* distances to ideal and anti-ideal are both 0 (no column of positive weight
\* varies: identical rows and a single row among the cases) every score is 0.
C12_PuanAraligi ==
    topsis.durum = "puan" =>
        /\ Len(topsis.puanlar) = Len(maliyet.karar)
        /\ \A i \in C11_Satirlar : C12_SifirBirArasi(topsis.puanlar[i])
        /\ C12_AyirtEdilmez => \A i \in C11_Satirlar : topsis.puanlar[i] = Sifir
        /\ (\A i, k \in C11_Satirlar : maliyet.karar[i] = maliyet.karar[k])
              => \A i \in C11_Satirlar : topsis.puanlar[i] = Sifir

\* Two identical rows under positive weights, scored
C12_Tanik ==
    /\ topsis.durum = "puan"
    /\ Len(maliyet.karar) = 2
    /\ maliyet.karar[1] = maliyet.karar[2]
    /\ maliyet.karar[1].beygir_gucu # Sifir
    /\ \A s \in C11_Sutunlar : agirliklar[s].n > 0

\* C13: the sorted frame lists every item exactly once with its own score,
\* scores descending, items of equal score in their original order.
C13_Iddia ==
    sirali # <<>> =>
        /\ Len(sirali) = Len(maliyet.karar)
        /\ \A i \in C11_Satirlar : \E r \in 1..Len(sirali) : sirali[r].konum = i
        /\ \A r \in 1..Len(sirali) :
              /\ sirali[r].satir = maliyet.karar[sirali[r].konum]
              /\ sirali[r].topsis_puani = topsis.puanlar[sirali[r].konum]
        /\ \A r, t \in 1..Len(sirali) :
              r < t => \/ /\ PuanLeq(sirali[t].topsis_puani, sirali[r].topsis_puani)
                          /\ sirali[t].topsis_puani # sirali[r].topsis_puani
                       \/ /\ sirali[t].topsis_puani = sirali[r].topsis_puani
                          /\ sirali[r].konum < sirali[t].konum

\* Every column is a cost
C15_HepsiMaliyet == \A s \in C11_Sutunlar : yonler[s] = "maliyet"

\* Row i holds the minimum of every column of positive weight
C15_EnIyi(i) ==
    \A s \in C11_Sutunlar :
        agirliklar[s].n > 0 =>
            \A k \in C11_Satirlar : RLeq(maliyet.karar[i][s], maliyet.karar[k][s])

C15_AyirtEden == \E s \in C11_Sutunlar : agirliklar[s].n > 0 /\ ~C12_SabitSutun(s)

\* The scenario: distances 50, 0, 50 in the column of weight 1, zeros in the
\* column of weight 0
C15_Senaryo ==
    /\ maliyet.karar = <<Satir(Tam(50), Sifir), Satir(Sifir, Sifir), Satir(Tam(50), Sifir)>>
    /\ maliyet.sutunlar = IkiSutun
    /\ agirliklar = Esle(Bir, Sifir)
    /\ yonler = Esle("maliyet", "maliyet")

\* C15: with every direction maliyet, an item at the minimum of every column
\* of positive weight scores exactly 1 when some such column varies, and no
\* item of another score is ranked before it; in the scenario the middle item
\* scores 1 and the two others score the same.
C15_IdealPuanBir ==
    (topsis.durum = "puan" /\ C15_HepsiMaliyet /\ C15_AyirtEden) =>
        /\ \A i \in C11_Satirlar :
              C15_EnIyi(i) =>
                 /\ topsis.puanlar[i] = Bir
                 /\ \A r, t \in 1..Len(sirali) :
                       (sirali[t].konum = i /\ r < t) => sirali[r].topsis_puani = Bir
        /\ C15_Senaryo =>
              /\ topsis.puanlar[2] = Bir
              /\ topsis.puanlar[1] = topsis.puanlar[3]
              /\ sirali # <<>> => sirali[1].konum = 2

\* The scenario, scored and sorted
C15_Tanik ==
    /\ C15_Senaryo
    /\ topsis.durum = "puan"
    /\ Len(sirali) = 3

\* ------------------------------------------------------------------------
\* Properties of the caller
\* ------------------------------------------------------------------------
\* The request of this step raised: the solve, the build or the ranking
C14_IstekBasarisiz ==
    \/ islem' = "ahp" /\ sonuc'.durum = "hata"
    \/ islem' = "topsis" /\ (maliyet'.durum = "hata" \/ topsis'.durum = "hata")

\* C14: a request that raises leaves the stored AHP result, the stored
\* pairwise matrix and the stored ranking as they were; the stored AHP result
\* changes only to the result of a solve that returned, and the stored
\* ranking only to the sorted frame of a build and a ranking that returned.
C14_BasarisizIstekDegistirmez ==
    [][ /\ C14_IstekBasarisiz =>
              /\ oturum'.ahp_sonuc = oturum.ahp_sonuc
              /\ oturum'.ikili_karsilastirma_df = oturum.ikili_karsilastirma_df
              /\ oturum'.sirali_df = oturum.sirali_df
        /\ oturum'.ahp_sonuc # oturum.ahp_sonuc =>
              /\ islem' = "ahp"
              /\ sonuc'.durum = "sonuc"
              /\ oturum'.ahp_sonuc = <<sonuc'>>
        /\ oturum'.sirali_df # oturum.sirali_df =>
              /\ islem' = "topsis"
              /\ maliyet'.durum = "karar"
              /\ topsis'.durum = "puan"
              /\ oturum'.sirali_df = <<sirali'>>
      ]_vars

\* A ranking request has raised while a ranking and an AHP result are stored
C14_Tanik ==
    /\ islem = "topsis"
    /\ topsis.durum = "hata"
    /\ oturum.sirali_df # Yok
    /\ oturum.ahp_sonuc # Yok

\* Preferences are saved and an AHP result is stored
C16_Hazir == oturum.kullanici_tercihleri # Yok /\ oturum.ahp_sonuc # Yok

\* The stored consistency ratio is above the threshold
C16_EsikUstu == RLt(CR_ESIGI, oturum.ahp_sonuc[1].cr)

\* C16: the build and the ranking run only from a state with saved
\* preferences and a stored AHP result, and with a stored cr above 0.10 only
\* while the override is checked (unchecked, the button is disabled); with cr
\* at most 0.10 the button is enabled and no override exists.  The solve
\* raises only on validation errors and the ranking only on an empty or
\* non-finite matrix, whatever cr is.
C16_SiralamaKapisi ==
    /\ [][ (maliyet'.durum # "yok" \/ topsis'.durum # "yok") =>
              /\ C16_Hazir
              /\ C16_EsikUstu => ekran.onay_kutusu = "isaretli"
         ]_vars
    /\ [](C16_Hazir =>
              IF C16_EsikUstu
              THEN /\ ekran.onay_kutusu # "yok"
                   /\ ekran.onay_kutusu = "bos" => ekran.topsis_dugmesi = "devre_disi"
              ELSE /\ ekran.onay_kutusu = "yok"
                   /\ ekran.topsis_dugmesi = "etkin")
    /\ []((islem = "ahp" /\ sonuc.durum = "hata") => sonuc.hata.ayrinti # <<>>)
    /\ []((islem = "topsis" /\ topsis.durum = "hata") => (C11_Bos \/ C11_HucreSonsuz))

\* A ranking has been made under a stored cr above 0.10 with the override on
C16_Tanik ==
    /\ islem = "topsis"
    /\ topsis.durum = "puan"
    /\ C16_Hazir
    /\ C16_EsikUstu
    /\ ekran.onay_kutusu = "isaretli"

==========================================================================
